---- MODULE Spec2Model ----
(***************************************************************************)
(* Model of client/src/lib/websocket.ts: the reconnecting WebSocket        *)
(* helper.  The module-level variables of the file are the program state;  *)
(* the browser's sockets and timers are the environment.  Every handler    *)
(* (createWSConnection, onopen, onclose, the two timer callbacks, the      *)
(* beforeunload listener) is one atomic action, as the browser's event     *)
(* loop runs each callback to completion.                                  *)
(***************************************************************************)
EXTENDS Integers, FiniteSets, Sequences, TLC

(* ---------------- bounds of the model ---------------- *)

\* number of socket objects that may be alive (not yet garbage) at once
MaxSockets == 2

\* reconnect timer ids that can be pending or referred to at once
MaxTimers == 2

(* ---------------- program constants ---------------- *)

maxReconnectAttempts == 10

\* close code of an intentional close (event.code !== 1000)
NormalClosure == 1000

\* close code of a failed or aborted connection (any code other than 1000)
AbnormalClosure == 1006

\* 1000 * Math.pow(1.5, n): the base of the backoff, in ms
BaseDelayMs == 1000

\* Math.min(..., 30000): the cap of the backoff, in ms
MaxDelayMs == 30000

\* Math.random() * 1000: the jitter is in [0, JitterMs)
JitterMs == 1000

(* Delays are rationals k / Scale ms, Scale = 2^maxReconnectAttempts, so   *)
(* that 1000 * 1.5^n is exact for every n the counter can take.            *)
RECURSIVE Pow(_, _)
Pow(b, n) == IF n <= 0 THEN 1 ELSE b * Pow(b, n - 1)

Scale == Pow(2, maxReconnectAttempts)

\* Math.random() * 1000, in 1/Scale ms: the two extremes of [0, 1000)
JitterValues == {0, JitterMs * Scale - 1}

Min(a, b) == IF a <= b THEN a ELSE b

SockIds == 1..MaxSockets
TimerIds == 1..MaxTimers

VARIABLES
    urlValid,           \* does new WebSocket(wsUrl) succeed on this page
    socket,             \* let socket: 0 is null, else the socket object
    reconnectAttempts,  \* let reconnectAttempts
    reconnectTimer,     \* let reconnectTimer: 0 is null, else a timer id
    isReconnecting,     \* let isReconnecting
    sockets,            \* the WebSocket objects that still exist, each with
                        \* the connectionTimeout timer of its closure
    timers,             \* the ids of the pending window.setTimeout timers
    lastOp,             \* the handler that ran last and what it did
    gaveUp,             \* scheduleReconnect has given up, and no caller has
                        \* invoked createWSConnection since
    closedNormally,     \* a close event with code 1000 was handled, and no
                        \* caller has invoked createWSConnection since
    attemptCost         \* increments of reconnectAttempts since the newest
                        \* socket was created (2 stands for two or more);
                        \* -1 before the first socket and once a socket
                        \* opened or closed with code 1000 since
    ,
    failing,            \* the failure has become persistent: from here on no
                        \* socket opens, no close carries code 1000 and no
                        \* caller invokes createWSConnection
    armedSince          \* reconnect timers armed since then

vars == <<urlValid, socket, reconnectAttempts, reconnectTimer, isReconnecting,
          sockets, timers, lastOp, gaveUp, closedNormally, attemptCost,
          failing, armedSince>>

\* a slot that holds no socket object
NoSocket == [readyState |-> "NONE", connectionTimeout |-> FALSE, wasOpen |-> FALSE]

(* ---------------- messages ---------------- *)

\* A text on the wire, by its shape: an object {"type":..., "payload":...}
\* (a missing member is "undefined"), the JSON text null, or text that is
\* not JSON.  NoText is the absence of a text.
Text(form, type, payload) == [form |-> form, type |-> type, payload |-> payload]

NoText == Text("none", "undefined", "undefined")

\* the texts the server may send
InboundTexts ==
    {Text("object", "dice_roll", "{value:7}"),
     Text("object", "dice_roll", "undefined"),
     Text("object", "campaign_update", "{id:2}"),
     Text("object", "chat", "{value:7}"),
     Text("object", "undefined", "{value:7}"),
     Text("null", "undefined", "undefined"),
     Text("garbage", "undefined", "undefined")}

\* the (type, payload) pairs a caller may pass to sendWSMessage
OutboundMessages == {<<"dice_roll", "{sides:20}">>, <<"chat", "undefined">>}

\* JSON.parse(event.data): the value, or a SyntaxError
JSONparse(text) ==
    IF text.form = "object"
    THEN [ok |-> TRUE, isNull |-> FALSE, type |-> text.type, payload |-> text.payload]
    ELSE IF text.form = "null"
    THEN [ok |-> TRUE, isNull |-> TRUE, type |-> "undefined", payload |-> "undefined"]
    ELSE [ok |-> FALSE, isNull |-> FALSE, type |-> "undefined", payload |-> "undefined"]

\* JSON.stringify({ type, payload })
JSONstringify(type, payload) == Text("object", type, payload)

\* new CustomEvent(name, { detail })
CustomEvent(name, detail) == [name |-> name, detail |-> detail]

(* ---------------- the program state as a value ---------------- *)

\* what a handler did, besides changing the program state: scheduleReconnect's
\* outcome, the counter it read, the delay it passed to setTimeout and whether
\* it cancelled a pending timer; whether a socket was constructed; whether
\* the event came from a socket other than the current one; the events
\* dispatched on window, the text given to the network, an uncaught exception
NoEffect ==
    [sched |-> "none", n |-> 0, delay |-> 0, cleared |-> FALSE, created |-> FALSE,
     stale |-> FALSE, arg |-> NoText, emitted |-> <<>>, sent |-> NoText,
     threw |-> FALSE]

\* the state a handler starts from
Cur ==
    [socket |-> socket, reconnectAttempts |-> reconnectAttempts,
     reconnectTimer |-> reconnectTimer, isReconnecting |-> isReconnecting,
     sockets |-> sockets, timers |-> timers, did |-> NoEffect]

\* clearTimeout(id): cancels the timer if it is pending, else does nothing
clearTimeout(tm, id) == tm \ {id}

\* timer ids that are pending or that the reconnectTimer variable holds
TimersInUse(s) == s.timers \cup ({s.reconnectTimer} \cap TimerIds)

\* setTimeout returns an id it never returned before: the least unused one
FreshTimer(s) ==
    CHOOSE id \in TimerIds \ TimersInUse(s) :
        \A j \in TimerIds \ TimersInUse(s) : id <= j

\* WebSocket.close(): starts the closing handshake unless already closing
socketClose(s, i) ==
    IF s.sockets[i].readyState \in {"CONNECTING", "OPEN"}
    THEN [s EXCEPT !.sockets[i].readyState = "CLOSING"]
    ELSE s

\* variant: the backoff without the Math.min cap
BackoffDelayUncapped(n, jitter) ==
    BaseDelayMs * Pow(3, n) * Pow(2, maxReconnectAttempts - n) + jitter

\* 1000 * 1.5^n + jitter capped at 30000, in 1/Scale ms
BackoffDelay(n, jitter) ==
    Min(BaseDelayMs * Pow(3, n) * Pow(2, maxReconnectAttempts - n) + jitter,
        MaxDelayMs * Scale)

\* variant: the give-up test written with > instead of >=
scheduleReconnectOffByOne(s, jitter) ==
    IF s.reconnectAttempts > maxReconnectAttempts
    THEN [s EXCEPT !.isReconnecting = FALSE, !.did.sched = "gaveup"]
    ELSE LET cleared == [s EXCEPT !.timers = clearTimeout(s.timers, s.reconnectTimer),
                                  !.reconnectTimer = 0]
             id == FreshTimer(cleared)
         IN  [cleared EXCEPT !.did.delay = BackoffDelay(s.reconnectAttempts, jitter),
                             !.did.n = s.reconnectAttempts,
                             !.did.cleared = (s.reconnectTimer \in s.timers),
                             !.reconnectAttempts = s.reconnectAttempts + 1,
                             !.reconnectTimer = id,
                             !.timers = cleared.timers \cup {id},
                             !.did.sched = "armed"]

\* variant: the previous reconnect timer is not cleared before the next
scheduleReconnectNoClear(s, jitter) ==
    IF s.reconnectAttempts >= maxReconnectAttempts
    THEN [s EXCEPT !.isReconnecting = FALSE, !.did.sched = "gaveup"]
    ELSE LET id == CHOOSE x \in TimerIds \ s.timers : TRUE
         IN  [s EXCEPT !.did.delay = BackoffDelay(s.reconnectAttempts, jitter),
                       !.did.n = s.reconnectAttempts,
                       !.reconnectAttempts = s.reconnectAttempts + 1,
                       !.reconnectTimer = id,
                       !.timers = s.timers \cup {id},
                       !.did.sched = "armed"]

scheduleReconnect(s, jitter) ==
    IF s.reconnectAttempts >= maxReconnectAttempts
    THEN [s EXCEPT !.isReconnecting = FALSE, !.did.sched = "gaveup"]
    ELSE LET cleared == [s EXCEPT !.timers = clearTimeout(s.timers, s.reconnectTimer),
                                  !.reconnectTimer = 0]
             id == FreshTimer(cleared)
         IN  [cleared EXCEPT !.did.delay = BackoffDelay(s.reconnectAttempts, jitter),
                             !.did.n = s.reconnectAttempts,
                             !.did.cleared = (s.reconnectTimer \in s.timers),
                             !.reconnectAttempts = s.reconnectAttempts + 1,
                             !.reconnectTimer = id,
                             !.timers = cleared.timers \cup {id},
                             !.did.sched = "armed"]

\* a socket object nothing refers to any more: closed, its events all
\* delivered, and no longer the value of the socket variable
Collect(s) ==
    [s EXCEPT !.sockets = [i \in SockIds |->
        IF s.sockets[i].readyState = "CLOSED" /\ i # s.socket
        THEN NoSocket ELSE s.sockets[i]]]

FreeSlots(s) == {i \in SockIds : s.sockets[i].readyState = "NONE"}

\* socket = new WebSocket(wsUrl); const connectionTimeout = setTimeout(...)
newSocket(s) ==
    LET old == [s EXCEPT !.socket = 0]
        g == Collect(old)
        slot == CHOOSE i \in FreeSlots(g) : \A j \in FreeSlots(g) : i <= j
    IN  [g EXCEPT !.socket = slot,
                  !.sockets[slot] = [readyState |-> "CONNECTING",
                                     connectionTimeout |-> TRUE,
                                     wasOpen |-> FALSE],
                  !.did.created = TRUE]

\* variant: only the isReconnecting test, the readyState test forgotten
ConnectReturnsEarlyNoStateTest(s, force) ==
    s.isReconnecting /\ ~force

\* variant: a non-forced call is also refused once the budget is exhausted
ConnectReturnsEarlyWhenExhausted(s, force) ==
    \/ s.isReconnecting /\ ~force
    \/ /\ s.socket # 0
       /\ s.sockets[s.socket].readyState \in {"OPEN", "CONNECTING"}
       /\ ~force
    \/ s.reconnectAttempts >= maxReconnectAttempts /\ ~force

\* does createWSConnection(force) return early
ConnectReturnsEarly(s, force) ==
    \/ s.isReconnecting /\ ~force
    \/ /\ s.socket # 0
       /\ s.sockets[s.socket].readyState \in {"OPEN", "CONNECTING"}
       /\ ~force

\* variant: the existing socket is not closed before the new one is made
createWSConnectionNoClose(s, force, jitter) ==
    IF ConnectReturnsEarly(s, force) THEN s
    ELSE LET r == [s EXCEPT !.isReconnecting = TRUE]
         IN  IF urlValid THEN newSocket(r) ELSE scheduleReconnect(r, jitter)

createWSConnection(s, force, jitter) ==
    IF ConnectReturnsEarly(s, force) THEN s
    ELSE LET c == IF s.socket # 0 THEN socketClose(s, s.socket) ELSE s
             r == [c EXCEPT !.isReconnecting = TRUE]
         IN  IF urlValid THEN newSocket(r) ELSE scheduleReconnect(r, jitter)

\* the connectionTimeout callback: it reads the socket variable
connectionTimeout(s, jitter) ==
    IF s.socket # 0 /\ s.sockets[s.socket].readyState # "OPEN"
    THEN scheduleReconnect(socketClose(s, s.socket), jitter)
    ELSE s

\* variant: onopen forgets to clear the pending reconnect timer
onopenKeepsTimer(s, i) ==
    [s EXCEPT !.sockets[i].connectionTimeout = FALSE,
              !.reconnectAttempts = 0,
              !.isReconnecting = FALSE]

\* socket.onopen of socket object i
onopen(s, i) ==
    [s EXCEPT !.sockets[i].connectionTimeout = FALSE,
              !.timers = clearTimeout(s.timers, s.reconnectTimer),
              !.reconnectAttempts = 0,
              !.isReconnecting = FALSE,
              !.reconnectTimer = 0]

\* variant: the intentional close resets the flag but not the counter
oncloseKeepsCounter(s, i, code, jitter) ==
    LET c == [s EXCEPT !.sockets[i].connectionTimeout = FALSE]
    IN  IF code # NormalClosure
        THEN scheduleReconnect(c, jitter)
        ELSE [c EXCEPT !.isReconnecting = FALSE]

\* variant: an abnormal close restores the retry budget before rescheduling
oncloseRestoresBudget(s, i, code, jitter) ==
    LET c == [s EXCEPT !.sockets[i].connectionTimeout = FALSE]
    IN  IF code # NormalClosure
        THEN scheduleReconnect([c EXCEPT !.reconnectAttempts = 0], jitter)
        ELSE [c EXCEPT !.isReconnecting = FALSE, !.reconnectAttempts = 0]

\* socket.onclose of socket object i
onclose(s, i, code, jitter) ==
    LET c == [s EXCEPT !.sockets[i].connectionTimeout = FALSE]
    IN  IF code # NormalClosure
        THEN scheduleReconnect(c, jitter)
        ELSE [c EXCEPT !.isReconnecting = FALSE, !.reconnectAttempts = 0]

\* variant: every message that has a type is forwarded as a campaign update
onmessageNoTypeFilter(s, text) ==
    LET data == JSONparse(text)
    IN  IF ~data.ok \/ data.isNull THEN s
        ELSE IF data.type = "dice_roll"
        THEN [s EXCEPT !.did.emitted = <<CustomEvent("dice_roll_result", data.payload)>>]
        ELSE [s EXCEPT !.did.emitted = <<CustomEvent("campaign_update", data.payload)>>]

\* variant: a message that does not parse closes the connection
onmessageClosesOnError(s, text) ==
    LET data == JSONparse(text)
    IN  IF ~data.ok \/ data.isNull
        THEN (IF s.socket # 0 THEN socketClose(s, s.socket) ELSE s)
        ELSE IF data.type = "dice_roll"
        THEN [s EXCEPT !.did.emitted = <<CustomEvent("dice_roll_result", data.payload)>>]
        ELSE IF data.type = "campaign_update"
        THEN [s EXCEPT !.did.emitted = <<CustomEvent("campaign_update", data.payload)>>]
        ELSE s

\* socket.onmessage: a SyntaxError of JSON.parse and the TypeError of reading
\* .type of null are caught and logged
onmessage(s, text) ==
    LET data == JSONparse(text)
    IN  IF ~data.ok \/ data.isNull THEN s
        ELSE IF data.type = "dice_roll"
        THEN [s EXCEPT !.did.emitted = <<CustomEvent("dice_roll_result", data.payload)>>]
        ELSE IF data.type = "campaign_update"
        THEN [s EXCEPT !.did.emitted = <<CustomEvent("campaign_update", data.payload)>>]
        ELSE s

\* WebSocket.send(text): throws InvalidStateError while CONNECTING, transmits
\* while OPEN, discards the text while CLOSING or CLOSED
socketSend(s, i, text) ==
    IF s.sockets[i].readyState = "CONNECTING" THEN [s EXCEPT !.did.threw = TRUE]
    ELSE IF s.sockets[i].readyState = "OPEN" THEN [s EXCEPT !.did.sent = text]
    ELSE s

\* variant: the readyState test forgotten
sendWSMessageNoStateTest(s, type, payload) ==
    IF s.socket # 0
    THEN socketSend(s, s.socket, JSONstringify(type, payload))
    ELSE s

sendWSMessage(s, type, payload) ==
    IF s.socket # 0 /\ s.sockets[s.socket].readyState = "OPEN"
    THEN socketSend(s, s.socket, JSONstringify(type, payload))
    ELSE s

\* the beforeunload listener
beforeunload(s) ==
    IF s.socket # 0 THEN socketClose(s, s.socket) ELSE s

(* ---------------- the state machine ---------------- *)

\* the handler may need one new socket object
SocketRoom(s) ==
    \/ FreeSlots(s) # {}
    \/ s.socket # 0 /\ s.sockets[s.socket].readyState = "CLOSED"

\* the handler may need one new reconnect timer
TimerRoom(s) == TimerIds \ (s.timers \ {s.reconnectTimer}) # {}

\* Math.random() is called only by a handler that arms a reconnect timer:
\* the other handlers are the same step for every jitter
Draws(s, jitter) == s.did.sched = "armed" \/ jitter = 0

\* the record of a handler's run: which handler, its argument, what it did
Op(name, code, force, s) ==
    [op |-> name, code |-> code, force |-> force, did |-> s.did]

\* the handler's result becomes the next state (a handler's result is bound
\* with \E over a singleton so that it is evaluated once)
Commit(r, op) ==
    \E s \in {Collect(r)} :
        /\ socket' = s.socket
        /\ reconnectAttempts' = s.reconnectAttempts
        /\ reconnectTimer' = s.reconnectTimer
        /\ isReconnecting' = s.isReconnecting
        /\ sockets' = s.sockets
        /\ timers' = s.timers
        /\ lastOp' = op
        /\ gaveUp' = IF op.op = "connect" THEN FALSE
                     ELSE (gaveUp \/ op.did.sched = "gaveup")
        /\ closedNormally' = IF op.op = "connect" THEN FALSE
                             ELSE (closedNormally \/ (op.op = "close" /\ op.code = NormalClosure))
        /\ attemptCost' =
               IF op.did.created THEN 0
               ELSE IF op.op = "open" \/ (op.op = "close" /\ op.code = NormalClosure) THEN -1
               ELSE IF op.did.sched = "armed" /\ attemptCost >= 0 THEN Min(attemptCost + 1, 2)
               ELSE attemptCost
        /\ armedSince' =
               IF failing /\ op.did.sched = "armed"
               THEN Min(armedSince + 1, maxReconnectAttempts + 1)
               ELSE armedSince
        /\ UNCHANGED <<urlValid, failing>>

Init ==
    /\ urlValid \in BOOLEAN
    /\ socket = 0
    /\ reconnectAttempts = 0
    /\ reconnectTimer = 0
    /\ isReconnecting = FALSE
    /\ sockets = [i \in SockIds |-> NoSocket]
    /\ timers = {}
    /\ lastOp = [op |-> "init", code |-> 0, force |-> FALSE, did |-> NoEffect]
    /\ gaveUp = FALSE
    /\ closedNormally = FALSE
    /\ attemptCost = -1
    /\ failing = FALSE
    /\ armedSince = 0

\* a caller invokes createWSConnection(force)
Connect(force, jitter) ==
    /\ SocketRoom(Cur) /\ TimerRoom(Cur)
    /\ \E r \in {createWSConnection(Cur, force, jitter)} :
           Draws(r, jitter) /\ Commit(r, Op("connect", 0, force, r))

\* variant: the timer callback calls createWSConnection() without force
ReconnectFireNotForced(id, jitter) ==
    /\ id \in timers
    /\ \E fired \in {[Cur EXCEPT !.timers = timers \ {id}]} :
           /\ SocketRoom(fired) /\ TimerRoom(fired)
           /\ \E r \in {createWSConnection(fired, FALSE, jitter)} :
                  Draws(r, jitter) /\ Commit(r, Op("reconnect", 0, TRUE, r))

\* the reconnect timer fires: createWSConnection(true)
ReconnectFire(id, jitter) ==
    /\ id \in timers
    /\ \E fired \in {[Cur EXCEPT !.timers = timers \ {id}]} :
           /\ SocketRoom(fired) /\ TimerRoom(fired)
           /\ \E r \in {createWSConnection(fired, TRUE, jitter)} :
                  Draws(r, jitter) /\ Commit(r, Op("reconnect", 0, TRUE, r))

\* a connection-timeout timer fires
TimeoutFire(i, jitter) ==
    /\ sockets[i].connectionTimeout
    /\ \E fired \in {[Cur EXCEPT !.sockets[i].connectionTimeout = FALSE,
                                   !.did.stale = (i # socket)]} :
           /\ TimerRoom(fired)
           /\ \E r \in {connectionTimeout(fired, jitter)} :
                  Draws(r, jitter) /\ Commit(r, Op("timeout", 0, FALSE, r))

\* the connection of socket object i is established
SocketOpen(i) ==
    /\ sockets[i].readyState = "CONNECTING"
    /\ \E o \in {[Cur EXCEPT !.sockets[i].readyState = "OPEN",
                               !.sockets[i].wasOpen = TRUE]} :
           \E r \in {onopen(o, i)} : Commit(r, Op("open", 0, FALSE, r))

\* socket object i is closed; a close frame with code 1000 can only have
\* arrived on a connection that was established
SocketClose(i, code, jitter) ==
    /\ sockets[i].readyState \in {"CONNECTING", "OPEN", "CLOSING"}
    /\ code = NormalClosure => sockets[i].wasOpen
    /\ \E c \in {[Cur EXCEPT !.sockets[i].readyState = "CLOSED",
                               !.did.stale = (i # socket)]} :
           /\ TimerRoom(c)
           /\ \E r \in {onclose(c, i, code, jitter)} :
                  Draws(r, jitter) /\ Commit(r, Op("close", code, FALSE, r))

\* a message arrives on socket object i (the browser delivers messages only
\* while the socket is OPEN)
SocketMessage(i, text) ==
    /\ sockets[i].readyState = "OPEN"
    /\ \E m \in {[Cur EXCEPT !.did.arg = text, !.did.stale = (i # socket)]} :
           \E r \in {onmessage(m, text)} : Commit(r, Op("message", 0, FALSE, r))

\* a caller invokes sendWSMessage(type, payload)
Send(type, payload) ==
    \E m \in {[Cur EXCEPT !.did.arg = JSONstringify(type, payload)]} :
        \E r \in {sendWSMessage(m, type, payload)} : Commit(r, Op("send", 0, FALSE, r))

\* the page fires beforeunload (the unload may still be cancelled)
BeforeUnload ==
    \E r \in {beforeunload(Cur)} : Commit(r, Op("unload", 0, FALSE, r))

Next ==
    \/ \E force \in BOOLEAN, jitter \in JitterValues : Connect(force, jitter)
    \/ \E id \in TimerIds, jitter \in JitterValues : ReconnectFire(id, jitter)
    \/ \E i \in SockIds, jitter \in JitterValues : TimeoutFire(i, jitter)
    \/ \E i \in SockIds : SocketOpen(i)
    \/ \E i \in SockIds, code \in {NormalClosure, AbnormalClosure}, jitter \in JitterValues :
           SocketClose(i, code, jitter)
    \/ \E i \in SockIds, text \in InboundTexts : SocketMessage(i, text)
    \/ \E out \in OutboundMessages : Send(out[1], out[2])
    \/ BeforeUnload

Spec == Init /\ [][Next]_vars

\* from this point on the failure is persistent
StartFailing ==
    /\ ~failing
    /\ failing' = TRUE
    /\ UNCHANGED <<urlValid, socket, reconnectAttempts, reconnectTimer, isReconnecting,
                   sockets, timers, lastOp, gaveUp, closedNormally, attemptCost,
                   armedSince>>

\* The program in an environment whose failure becomes persistent: once it
\* has, no socket opens, no close event carries code 1000 and no caller
\* invokes createWSConnection; everything else goes on.
FailNext ==
    \/ StartFailing
    \/ \E force \in BOOLEAN, jitter \in JitterValues : ~failing /\ Connect(force, jitter)
    \/ \E id \in TimerIds, jitter \in JitterValues : ReconnectFire(id, jitter)
    \/ \E i \in SockIds, jitter \in JitterValues : TimeoutFire(i, jitter)
    \/ \E i \in SockIds : ~failing /\ SocketOpen(i)
    \/ \E i \in SockIds, code \in {NormalClosure, AbnormalClosure}, jitter \in JitterValues :
           (failing => code # NormalClosure) /\ SocketClose(i, code, jitter)
    \/ \E i \in SockIds, text \in InboundTexts : SocketMessage(i, text)
    \/ \E out \in OutboundMessages : Send(out[1], out[2])
    \/ BeforeUnload

TypeOK ==
    /\ urlValid \in BOOLEAN
    /\ socket \in 0..MaxSockets
    /\ reconnectAttempts \in Nat
    /\ reconnectTimer \in 0..MaxTimers
    /\ isReconnecting \in BOOLEAN
    /\ \A i \in SockIds : sockets[i].readyState \in {"NONE", "CONNECTING", "OPEN", "CLOSING", "CLOSED"}
    /\ timers \subseteq TimerIds
    /\ failing \in BOOLEAN
    /\ armedSince \in 0..(maxReconnectAttempts + 1)


(* ---------------- fairness ---------------- *)

\* a pending reconnect timer fires
ReconnectFireAny == \E id \in TimerIds, jitter \in JitterValues : ReconnectFire(id, jitter)

\* the close event of a socket whose close() was called is delivered
ClosingDelivered ==
    \E i \in SockIds, code \in {NormalClosure, AbnormalClosure}, jitter \in JitterValues :
        sockets[i].readyState = "CLOSING" /\ SocketClose(i, code, jitter)

\* Timers fire and closing handshakes end; callers and the network are free.
\* The timer's fairness is strong only because a full socket table disables
\* the callback in the model until a closing socket has closed.
LiveSpec ==
    /\ Spec
    /\ SF_vars(ReconnectFireAny)
    /\ WF_vars(ClosingDelivered)

\* a pending connection timeout fires
TimeoutFireAny == \E i \in SockIds, jitter \in JitterValues : TimeoutFire(i, jitter)

\* the close event of a socket whose close() was called is delivered, with
\* a code other than 1000
ClosingFails ==
    \E i \in SockIds, jitter \in JitterValues :
        sockets[i].readyState = "CLOSING" /\ SocketClose(i, AbnormalClosure, jitter)

\* Persistent failure, with timers that fire and closing handshakes that end.
FailSpec ==
    /\ Init /\ [][FailNext]_vars
    /\ SF_vars(ReconnectFireAny)
    /\ WF_vars(TimeoutFireAny)
    /\ WF_vars(ClosingFails)

(* ---------------- properties ---------------- *)

\* sockets whose connection-timeout timer is pending
PendingTimeouts == {i \in SockIds : sockets[i].connectionTimeout}

\* timers pending in total, of both kinds
PendingTimerCount == Cardinality(timers) + Cardinality(PendingTimeouts)

\* sockets in one of the given ready states
SocketsIn(states) == {i \in SockIds : sockets[i].readyState \in states}

\* the program state a handler can change
progVars == <<socket, reconnectAttempts, reconnectTimer, isReconnecting, sockets, timers>>

\* C1: at most one timer is pending in total, counting the reconnect timer
\* and the connection-timeout timers together.
C1_AtMostOneTimer == PendingTimerCount <= 1

\* C2 as stated: at most one socket is CONNECTING, OPEN or CLOSING.
C2_AtMostOneLiveSocket == Cardinality(SocketsIn({"CONNECTING", "OPEN", "CLOSING"})) <= 1

\* C2 amended: at most one socket is CONNECTING or OPEN, and it is the
\* current one; every superseded socket is CLOSING or already closed.
C2_AtMostOneActiveSocket ==
    /\ Cardinality(SocketsIn({"CONNECTING", "OPEN"})) <= 1
    /\ \A i \in SockIds : i # socket => sockets[i].readyState \in {"NONE", "CLOSING"}

\* a new socket was just created while the one it replaced is still CLOSING
C2_Witness ==
    /\ lastOp.did.created
    /\ socket # 0 /\ sockets[socket].readyState = "CONNECTING"
    /\ \E i \in SockIds : i # socket /\ sockets[i].readyState = "CLOSING"

\* C3: once scheduleReconnect has given up, no timer-driven
\* createWSConnection(true) runs (and so no socket is created) until a caller
\* invokes createWSConnection.  The reconnect callback that itself gives up
\* (the constructor threw) is not a later attempt.
C3_NoAttemptAfterGiveUp ==
    (gaveUp /\ lastOp.op = "reconnect") => lastOp.did.sched = "gaveup"

\* C4: after a close event with code 1000 no reconnect timer is pending and
\* no timer-driven reconnect runs until a caller invokes createWSConnection.
C4_NoReconnectAfterNormalClose ==
    closedNormally => (timers = {} /\ lastOp.op # "reconnect")

\* C5: the handler of a close event with code 1000 does not call
\* scheduleReconnect (no timer armed or cancelled, counter not incremented)
\* and leaves reconnectAttempts = 0 and isReconnecting = FALSE.
C5_NormalCloseResets ==
    [][(lastOp'.op = "close" /\ lastOp'.code = NormalClosure) =>
          /\ lastOp'.did.sched = "none"
          /\ timers' = timers
          /\ reconnectTimer' = reconnectTimer
          /\ reconnectAttempts' = 0
          /\ isReconnecting' = FALSE]_vars

\* a code-1000 close was handled while a reconnect was scheduled, so the
\* counter was not 0 before it
C5_Witness ==
    /\ lastOp.op = "close" /\ lastOp.code = NormalClosure
    /\ timers # {}
    /\ reconnectAttempts = 0

\* an abnormal close was just handled and left a reconnect timer pending
AbnormalCloseScheduled ==
    lastOp.op = "close" /\ lastOp.code # NormalClosure /\ timers # {}

\* C6: handling a close event whose code is not 1000 while
\* reconnectAttempts < 10 leaves the reconnect timer pending; and, timers
\* firing eventually, then either the timer callback runs
\* createWSConnection(true) and creates a socket, or a socket opens first.
C6_AbnormalCloseReconnects ==
    /\ [][(/\ lastOp'.op = "close" /\ lastOp'.code # NormalClosure
            /\ reconnectAttempts < maxReconnectAttempts) =>
              (reconnectTimer' \in timers' /\ lastOp'.did.sched = "armed")]_vars
    /\ (AbnormalCloseScheduled ~>
           ((lastOp.op = "reconnect" /\ lastOp.did.created) \/ lastOp.op = "open"))

\* the reconnect scheduled by an abnormal close of an open connection
C6_Witness ==
    /\ AbnormalCloseScheduled /\ lastOp.did.sched = "armed"
    /\ reconnectTimer \in timers
    /\ SocketsIn({"CONNECTING", "OPEN"}) = {}

\* C7: 0 <= reconnectAttempts <= maxReconnectAttempts in every state.
C7_CounterInRange == reconnectAttempts \in 0..maxReconnectAttempts

\* the budget is exhausted
C7_Witness == reconnectAttempts = maxReconnectAttempts /\ lastOp.did.sched = "armed"

\* C8: when scheduleReconnect arms a timer with the counter at n, n < 10 and
\* min(1000*1.5^n, 30000) <= delay <= min(1000*1.5^n + 1000, 30000); n = 0
\* gives [1000, 2000], n = 9 gives exactly 30000.  Delays are in 1/Scale ms.
C8_DelayBounds ==
    lastOp.did.sched = "armed" =>
        LET n == lastOp.did.n
            base == BaseDelayMs * Pow(3, n) * Pow(2, maxReconnectAttempts - n)
        IN  /\ n \in 0..(maxReconnectAttempts - 1)
            /\ Min(base, MaxDelayMs * Scale) <= lastOp.did.delay
            /\ lastOp.did.delay <= Min(base + JitterMs * Scale, MaxDelayMs * Scale)
            /\ lastOp.did.delay <= 30000 * Scale
            /\ n = 0 => (1000 * Scale <= lastOp.did.delay /\ lastOp.did.delay <= 2000 * Scale)
            /\ n = 9 => lastOp.did.delay = 30000 * Scale

\* the tenth timer was armed, with the capped delay
C8_Witness ==
    lastOp.did.sched = "armed" /\ lastOp.did.n = 9 /\ lastOp.did.delay = MaxDelayMs * Scale

\* the terminal state of C9: budget exhausted, scheduleReconnect has given
\* up (which left isReconnecting false), current socket closed
Exhausted ==
    /\ reconnectAttempts = maxReconnectAttempts
    /\ gaveUp /\ ~isReconnecting
    /\ socket # 0 /\ sockets[socket].readyState = "CLOSED"

\* C9 as stated: in the terminal state createWSConnection(false) is a no-op.
C9_NonForcedIsNoOp ==
    [][(Exhausted /\ lastOp'.op = "connect" /\ ~lastOp'.force) =>
          UNCHANGED progVars]_vars

\* C9 amended: in the terminal state createWSConnection restarts connecting
\* whatever the force flag: it creates a new CONNECTING socket, sets
\* isReconnecting and leaves reconnectAttempts at 10.
C9_AnyConnectRestarts ==
    [][(Exhausted /\ lastOp'.op = "connect") =>
          /\ lastOp'.did.created
          /\ socket' # 0 /\ sockets'[socket'].readyState = "CONNECTING"
          /\ isReconnecting'
          /\ reconnectAttempts' = maxReconnectAttempts]_vars

\* a non-forced call has restarted connecting with the budget exhausted
C9_Witness ==
    /\ lastOp.op = "connect" /\ ~lastOp.force /\ lastOp.did.created
    /\ reconnectAttempts = maxReconnectAttempts
    /\ ~gaveUp

\* C10: createWSConnection(false) with the current socket CONNECTING or OPEN
\* changes nothing: no socket closed or created, no timer armed or
\* cancelled, counter and flag unchanged.
C10_NonForcedConnectIsNoOp ==
    [][(/\ lastOp'.op = "connect" /\ ~lastOp'.force
        /\ socket # 0
        /\ sockets[socket].readyState \in {"CONNECTING", "OPEN"}) =>
          UNCHANGED progVars /\ ~lastOp'.did.created /\ lastOp'.did.sched = "none"]_vars

\* a non-forced call returned early on an OPEN socket with the flag clear
C10_Witness ==
    /\ lastOp.op = "connect" /\ ~lastOp.force /\ ~lastOp.did.created
    /\ socket # 0 /\ sockets[socket].readyState = "OPEN"
    /\ ~isReconnecting


\* C11: right after a socket's open event is handled, reconnectAttempts = 0,
\* isReconnecting is false, reconnectTimer is null and no reconnect timer is
\* pending, and the connection timeout armed for that socket is cancelled.
C11_OpenResets ==
    [][\A i \in SockIds :
          (/\ lastOp'.op = "open"
           /\ sockets[i].readyState = "CONNECTING"
           /\ sockets'[i].readyState = "OPEN") =>
             /\ reconnectAttempts' = 0
             /\ isReconnecting' = FALSE
             /\ reconnectTimer' = 0
             /\ timers' = {}
             /\ ~sockets'[i].connectionTimeout]_vars

\* the socket created by a timer-driven reconnect has opened
C11_Witness ==
    /\ lastOp.op = "open"
    /\ socket # 0 /\ sockets[socket].readyState = "OPEN"
    /\ reconnectAttempts = 0 /\ reconnectTimer = 0 /\ timers = {}

\* C15: while the current socket is OPEN no reconnect timer is pending.
C15_NoTimerWhileOpen ==
    (socket # 0 /\ sockets[socket].readyState = "OPEN") => timers = {}

\* C16: isReconnecting is true whenever a reconnect timer is pending (so a
\* non-forced createWSConnection during the backoff wait returns early).
C16_ReconnectingWhileScheduled == timers # {} => isReconnecting

\* C18: the close event and the connection-timeout callback of a superseded
\* socket change neither reconnectAttempts nor isReconnecting, arm no
\* reconnect timer and do not close the current socket.
C18_StaleCallbacksInert ==
    [][(lastOp'.op \in {"close", "timeout"} /\ lastOp'.did.stale) =>
          /\ UNCHANGED <<socket, reconnectAttempts, isReconnecting, reconnectTimer, timers>>
          /\ socket # 0 => sockets'[socket] = sockets[socket]]_vars

\* C20: at most one reconnect timer is pending.
C20_AtMostOneReconnectTimer == Cardinality(timers) <= 1

\* scheduleReconnect re-armed the timer while the previous one was pending
C20_Witness ==
    /\ lastOp.did.sched = "armed" /\ lastOp.did.cleared
    /\ timers = {reconnectTimer}


\* C17: between the creation of one socket and the creation of the next,
\* with no open and no code-1000 close in between, reconnectAttempts is
\* incremented at most once.
C17_OneUnitPerAttempt == attemptCost <= 1


\* the current socket is OPEN
CurrentOpen == socket # 0 /\ sockets[socket].readyState = "OPEN"

\* C12: sendWSMessage with no socket, or with the current socket not OPEN,
\* throws nothing, transmits nothing and changes no program state; and a text
\* is only ever transmitted by the sendWSMessage call that was given it, on
\* an OPEN socket, so a dropped message is not transmitted later.
C12_SendWhileDisconnectedDrops ==
    /\ [][(lastOp'.op = "send" /\ ~CurrentOpen) =>
            /\ UNCHANGED progVars
            /\ lastOp'.did.sent = NoText
            /\ ~lastOp'.did.threw]_vars
    /\ [][lastOp'.did.sent # NoText =>
            /\ lastOp'.op = "send"
            /\ lastOp'.did.sent = lastOp'.did.arg
            /\ CurrentOpen]_vars

\* a message was dropped while the socket was still CONNECTING
C12_Witness ==
    /\ lastOp.op = "send" /\ lastOp.did.sent = NoText /\ ~lastOp.did.threw
    /\ socket # 0 /\ sockets[socket].readyState = "CONNECTING"

\* C13: an inbound text that is a JSON object of type dice_roll emits exactly
\* the event dice_roll_result, one of type campaign_update exactly the event
\* campaign_update, each carrying the text's payload; any other text, and
\* any other handler, emits nothing.
C13_NotificationPerMessage ==
    LET text == lastOp.did.arg
    IN  IF lastOp.op = "message" /\ text.form = "object" /\ text.type = "dice_roll"
        THEN lastOp.did.emitted = <<[name |-> "dice_roll_result", detail |-> text.payload]>>
        ELSE IF lastOp.op = "message" /\ text.form = "object" /\ text.type = "campaign_update"
        THEN lastOp.did.emitted = <<[name |-> "campaign_update", detail |-> text.payload]>>
        ELSE lastOp.did.emitted = <<>>

\* the scenario of the spec: dice_roll with payload {value:7}
C13_Witness ==
    /\ lastOp.op = "message"
    /\ lastOp.did.arg = Text("object", "dice_roll", "{value:7}")
    /\ lastOp.did.emitted = <<[name |-> "dice_roll_result", detail |-> "{value:7}"]>>

\* C14: handling an inbound message changes no program state: the socket is
\* not closed, counter and flag unchanged, no timer armed or cancelled.
C14_MessageLeavesConnection ==
    [][lastOp'.op = "message" =>
          /\ UNCHANGED progVars
          /\ lastOp'.did.sched = "none" /\ ~lastOp'.did.created]_vars

\* a malformed text was handled and the connection is still open
C14_Witness ==
    /\ lastOp.op = "message" /\ lastOp.did.arg.form = "garbage"
    /\ CurrentOpen


\* a connection attempt is under way: a reconnect timer is pending or a
\* socket is CONNECTING
RetryLoopRunning == timers # {} \/ SocketsIn({"CONNECTING"}) # {}

\* the retry loop has stopped with its budget spent
Quiescent ==
    /\ reconnectAttempts = maxReconnectAttempts
    /\ timers = {}
    /\ SocketsIn({"CONNECTING", "OPEN"}) = {}

====
